---- MODULE Spec2Model ----
(***************************************************************************)
(* PATH manipulation utilities of src-tauri/src/path_utils.rs.             *)
(*                                                                         *)
(* A string is a sequence of one-character strings, so that split(':'),    *)
(* trim_end_matches('/') and join(":") work on characters as the Rust code *)
(* does.  The process environment variable PATH and the filesystem that    *)
(* Path::canonicalize and Path::exists consult are state.                  *)
(***************************************************************************)
EXTENDS Integers, Sequences, FiniteSets, TLC

VARIABLES
    fs,     \* the filesystem: what lives under "/" at each name
    PATH,   \* the process environment variable PATH ("" when unset)
    call,   \* the last call made: its operation, inputs and result
    path_mutex,  \* the String in the Arc<Mutex<String>> the threads share
    thread,      \* per thread: where it is, and its new_dir, current, enhanced
    writer       \* the thread that stored into path_mutex last, 0 for none

\* the state of the threads of test_concurrent_path_modifications
threads == <<path_mutex, thread, writer>>

vars == <<fs, PATH, call, path_mutex, thread, writer>>

----------------------------------------------------------------------------
(* Bounds of the model. *)

\* segments of the PATH the process starts with
MaxSegs == 2
\* segments of a PATH a caller stores back with env::set_var
MaxEnvSegs == 3
\* segments of the string handed to deduplicate_path
MaxDedupSegs == 3
\* successive calls of one operation on its own previous result
MaxCalls == 3
\* threads that modify the shared path concurrently
MaxThreads == 2
\* candidate directories handed to enhance_path_for_common_locations
MaxCands == 2

----------------------------------------------------------------------------
(* Strings. *)

Sep == ":"
Slash == "/"

\* names of directory entries under the root
Names == {"a", "b"}

\* the ':'-free strings PATH segments are drawn from:
\* "", "/", "/a", "/a/", "/b"
Segments ==
    { <<>>, <<Slash>>, <<Slash, "a">>, <<Slash, "a", Slash>>, <<Slash, "b">> }

RECURSIVE JoinFrom(_, _)
JoinFrom(parts, i) ==
    IF i > Len(parts) THEN <<>>
    ELSE IF i = Len(parts) THEN parts[i]
    ELSE parts[i] \o <<Sep>> \o JoinFrom(parts, i + 1)

\* [String].join(":")
Join(parts) == JoinFrom(parts, 1)

RECURSIVE SplitFrom(_, _, _)
SplitFrom(s, i, cur) ==
    IF i > Len(s) THEN <<cur>>
    ELSE IF s[i] = Sep THEN <<cur>> \o SplitFrom(s, i + 1, <<>>)
    ELSE SplitFrom(s, i + 1, Append(cur, s[i]))

\* str::split(':'): always at least one piece; "" gives one empty piece
Split(s) == SplitFrom(s, 1, <<>>)

RECURSIVE TrimEndSlashes(_)
\* str::trim_end_matches('/')
TrimEndSlashes(s) ==
    IF Len(s) > 0 /\ s[Len(s)] = Slash
    THEN TrimEndSlashes(SubSeq(s, 1, Len(s) - 1))
    ELSE s

RECURSIVE ComponentsFrom(_, _, _)
ComponentsFrom(s, i, cur) ==
    IF i > Len(s) THEN (IF cur = <<>> THEN <<>> ELSE <<cur>>)
    ELSE IF s[i] = Slash
         THEN (IF cur = <<>> THEN <<>> ELSE <<cur>>) \o ComponentsFrom(s, i + 1, <<>>)
         ELSE ComponentsFrom(s, i + 1, Append(cur, s[i]))

\* the names between the '/' of a path, repeated '/' counting once
Components(s) == ComponentsFrom(s, 1, <<>>)

\* PATH values of at most n segments
Paths(n) == { Join(segs) : segs \in UNION { [1..k -> Segments] : k \in 1..n } }

\* directory arguments: every segment, and names of directories that contain ':'
Dirs ==
    Segments \cup
    { <<Slash, x, Sep, Slash, y>> : x \in Names, y \in Names }

\* candidate directories of enhance_path_for_common_locations
Candidates == Segments \ {<<>>}

\* lists of at most n candidates
CandidateLists(n) == UNION { [1..k -> Candidates] : k \in 0..n }

\* executables a command is built for: a file "c" in each directory
Executables == { dir \o <<Slash, "c">> : dir \in Dirs }

----------------------------------------------------------------------------
(* The filesystem.  Under the root each name is absent, a directory, or a   *)
(* symbolic link to the other name.  The working directory is the root.    *)

Kinds == {"none", "dir", "link"}

Other(n) == CHOOSE m \in Names : m # n

FileSystems == [Names -> Kinds]

\* where name n under the root leads after following symbolic links:
\* a name that is a directory, or "" when it leads nowhere
Target(n) ==
    IF n \notin Names THEN ""
    ELSE IF fs[n] = "dir" THEN n
    ELSE IF fs[n] = "link" /\ fs[Other(n)] = "dir" THEN Other(n)
    ELSE ""

\* the entry a path string resolves to: the root, a name, or nothing
Resolve(s) ==
    LET comps == Components(s) IN
    IF s = <<>> THEN [ok |-> FALSE, val |-> <<>>]
    ELSE IF comps = <<>> THEN [ok |-> TRUE, val |-> <<Slash>>]
    ELSE IF Len(comps) = 1 /\ Len(comps[1]) = 1 /\ Target(comps[1][1]) # ""
         THEN [ok |-> TRUE, val |-> <<Slash, Target(comps[1][1])>>]
    ELSE [ok |-> FALSE, val |-> <<>>]

\* Path::canonicalize(): Ok(absolute path without symbolic links) or Err
Canonicalize(s) == Resolve(s)

\* Path::exists()
Exists(s) == Resolve(s).ok

----------------------------------------------------------------------------
(* path_utils.rs *)

normalize_path(path) ==
    LET trimmed == TrimEndSlashes(path)
        canonical == Canonicalize(trimmed)
    IN  IF canonical.ok THEN canonical.val ELSE trimmed

path_contains_dir(path, dir) ==
    LET normalized_dir == normalize_path(dir)
        parts == Split(path)
    IN  \E i \in 1..Len(parts) : normalize_path(parts[i]) = normalized_dir

\* format!("{}{}", dir, current_path): the separator forgotten
add_without_separator(current_path, dir) ==
    IF path_contains_dir(current_path, dir) THEN current_path
    ELSE IF current_path = <<>> THEN dir
    ELSE dir \o current_path

\* the check for an existing entry forgotten
add_always_prepends(current_path, dir) ==
    IF current_path = <<>> THEN dir ELSE dir \o <<Sep>> \o current_path

\* format!("{}:{}", current_path, dir): appended, not prepended
add_appends(current_path, dir) ==
    IF path_contains_dir(current_path, dir) THEN current_path
    ELSE IF current_path = <<>> THEN dir
    ELSE current_path \o <<Sep>> \o dir

add_to_path_if_missing(current_path, dir) ==
    IF path_contains_dir(current_path, dir) THEN current_path
    ELSE IF current_path = <<>> THEN dir
    ELSE dir \o <<Sep>> \o current_path

------------------------------------------------------------

RECURSIVE DedupLoop(_, _, _, _)
\* the for loop of deduplicate_path from segment i on
DedupLoop(parts, i, seen, unique_paths) ==
    IF i > Len(parts) THEN unique_paths
    ELSE LET p == parts[i]
             normalized == normalize_path(p)
         IN  IF normalized # <<>> /\ normalized \notin seen
             THEN DedupLoop(parts, i + 1, seen \cup {normalized}, Append(unique_paths, p))
             ELSE DedupLoop(parts, i + 1, seen, unique_paths)

RECURSIVE DedupRawSeenLoop(_, _, _, _)
DedupRawSeenLoop(parts, i, seen, unique_paths) ==
    IF i > Len(parts) THEN unique_paths
    ELSE LET p == parts[i]
             normalized == normalize_path(p)
         IN  IF normalized # <<>> /\ p \notin seen
             THEN DedupRawSeenLoop(parts, i + 1, seen \cup {p}, Append(unique_paths, normalized))
             ELSE DedupRawSeenLoop(parts, i + 1, seen, unique_paths)

\* seen.insert(p) and push(normalized): the raw and the normalized text swapped
deduplicate_path_swapped(path) == Join(DedupRawSeenLoop(Split(path), 1, {}, <<>>))

RECURSIVE DedupNormalizedLoop(_, _, _, _)
DedupNormalizedLoop(parts, i, seen, unique_paths) ==
    IF i > Len(parts) THEN unique_paths
    ELSE LET normalized == normalize_path(parts[i])
         IN  IF normalized # <<>> /\ normalized \notin seen
             THEN DedupNormalizedLoop(parts, i + 1, seen \cup {normalized},
                                      Append(unique_paths, normalized))
             ELSE DedupNormalizedLoop(parts, i + 1, seen, unique_paths)

\* push(normalized): the normalized text kept instead of the original
deduplicate_path_pushes_normalized(path) ==
    Join(DedupNormalizedLoop(Split(path), 1, {}, <<>>))

RECURSIVE DedupKeepEmptyLoop(_, _, _, _)
DedupKeepEmptyLoop(parts, i, seen, unique_paths) ==
    IF i > Len(parts) THEN unique_paths
    ELSE LET p == parts[i]
             normalized == normalize_path(p)
         IN  IF normalized \notin seen
             THEN DedupKeepEmptyLoop(parts, i + 1, seen \cup {normalized},
                                     Append(unique_paths, p))
             ELSE DedupKeepEmptyLoop(parts, i + 1, seen, unique_paths)

\* the !normalized.is_empty() test forgotten
deduplicate_path_keeps_empty(path) == Join(DedupKeepEmptyLoop(Split(path), 1, {}, <<>>))

RECURSIVE DedupRawLoop(_, _, _, _)
DedupRawLoop(parts, i, seen, unique_paths) ==
    IF i > Len(parts) THEN unique_paths
    ELSE LET p == parts[i]
         IN  IF p # <<>> /\ p \notin seen
             THEN DedupRawLoop(parts, i + 1, seen \cup {p}, Append(unique_paths, p))
             ELSE DedupRawLoop(parts, i + 1, seen, unique_paths)

\* segments compared as written, normalize_path forgotten
deduplicate_path_raw(path) == Join(DedupRawLoop(Split(path), 1, {}, <<>>))

deduplicate_path(path) == Join(DedupLoop(Split(path), 1, {}, <<>>))

\* Option<String>: some = FALSE is None
None == [some |-> FALSE, val |-> <<>>]
Some(v) == [some |-> TRUE, val |-> v]

\* the directories the loop of enhance_path_for_common_locations pushes
NewPaths(current_path, paths) ==
    SelectSeq(paths, LAMBDA path : Exists(path) /\ ~path_contains_dir(current_path, path))

\* the Path::new(path).exists() test forgotten
enhance_without_exists(current_path, paths) ==
    LET new_paths == SelectSeq(paths, LAMBDA path : ~path_contains_dir(current_path, path)) IN
    IF new_paths = <<>> THEN None
    ELSE Some(deduplicate_path(Join(Append(new_paths, current_path))))

enhance_path_for_common_locations(current_path, paths) ==
    LET new_paths == NewPaths(current_path, paths) IN
    IF new_paths = <<>> THEN None
    ELSE Some(deduplicate_path(Join(Append(new_paths, current_path))))

----------------------------------------------------------------------------
(* claude_binary::create_command_with_env, as the specification describes   *)
(* buildExecutionEnvironment.                                              *)

RECURSIVE LastSlash(_, _)
LastSlash(s, i) ==
    IF i = 0 THEN 0 ELSE IF s[i] = Slash THEN i ELSE LastSlash(s, i - 1)

\* the directory that holds an executable
dir_of_executable(exe) ==
    LET k == LastSlash(exe, Len(exe)) IN
    IF k = 0 THEN <<>>
    ELSE IF k = 1 THEN <<Slash>>
    ELSE SubSeq(exe, 1, k - 1)

\* the PATH of the environment built for an executable
build_execution_path(current_path, exe) ==
    deduplicate_path(add_to_path_if_missing(current_path, dir_of_executable(exe)))

----------------------------------------------------------------------------
(* Calls. *)

NoCall ==
    [op |-> "none", path |-> <<>>, dir |-> <<>>, cands |-> <<>>, ret |-> <<>>,
     found |-> FALSE, set |-> FALSE, nth |-> 0, first |-> <<>>]

\* path_contains_dir(&PATH, dir)
PathContainsDir(dir) ==
    /\ call' = [NoCall EXCEPT !.op = "contains", !.path = PATH, !.dir = dir,
                              !.found = path_contains_dir(PATH, dir), !.nth = 1,
                              !.first = PATH]
    /\ UNCHANGED <<fs, PATH, threads>>

\* add_to_path_if_missing(dir): reads PATH from the environment
AddToPathIfMissing(dir) ==
    LET again == call.op = "add" /\ call.set /\ call.dir = dir
        nth == IF again THEN call.nth + 1 ELSE 1
    IN  /\ nth <= MaxCalls
        /\ call' = [NoCall EXCEPT !.op = "add", !.path = PATH, !.dir = dir,
                                  !.ret = add_to_path_if_missing(PATH, dir),
                                  !.nth = nth,
                                  !.first = IF again THEN call.first ELSE PATH]
        /\ UNCHANGED <<fs, PATH, threads>>

\* env::set_var("PATH", &result): a caller stores the result of
\* add_to_path_if_missing back into the environment
SetVarPath ==
    /\ call.op = "add"
    /\ ~call.set
    /\ Len(Split(call.ret)) <= MaxEnvSegs
    /\ PATH' = call.ret
    /\ call' = [call EXCEPT !.set = TRUE]
    /\ UNCHANGED <<fs, threads>>

\* deduplicate_path(path), on PATH or on the result of the previous call
DeduplicatePath(again) ==
    LET path == IF again THEN call.ret ELSE PATH
        nth == IF again THEN call.nth + 1 ELSE 1
    IN  /\ again => call.op = "dedup"
        /\ nth <= MaxCalls
        /\ call' = [NoCall EXCEPT !.op = "dedup", !.path = path,
                                  !.ret = deduplicate_path(path), !.nth = nth,
                                  !.first = IF again THEN call.first ELSE PATH]
        /\ UNCHANGED <<fs, PATH, threads>>

\* enhance_path_for_common_locations(paths): reads PATH from the environment
EnhancePathForCommonLocations(paths) ==
    LET r == enhance_path_for_common_locations(PATH, paths) IN
    /\ call' = [NoCall EXCEPT !.op = "enhance", !.path = PATH, !.cands = paths,
                              !.found = r.some, !.ret = r.val, !.nth = 1,
                              !.first = PATH]
    /\ UNCHANGED <<fs, PATH, threads>>

\* create_command_with_env(exe): the PATH it builds is the PATH the next call inherits
CreateCommandWithEnv(exe) ==
    LET again == call.op = "build" /\ call.dir = exe
        nth == IF again THEN call.nth + 1 ELSE 1
        new_path == build_execution_path(PATH, exe)
    IN  /\ nth <= MaxCalls
        /\ call' = [NoCall EXCEPT !.op = "build", !.path = PATH, !.dir = exe,
                                  !.ret = new_path, !.set = TRUE, !.nth = nth,
                                  !.first = IF again THEN call.first ELSE PATH]
        /\ PATH' = new_path
        /\ UNCHANGED <<fs, threads>>

----------------------------------------------------------------------------
(* test_concurrent_path_modifications: each thread copies the shared path   *)
(* under the lock, sets PATH to the copy, calls add_to_path_if_missing with *)
(* its own directory and stores the result under the lock.                 *)

\* no thread has been spawned
NoThreads ==
    /\ path_mutex = <<>>
    /\ thread = <<>>
    /\ writer = 0

\* the directories the threads are given, in a fixed order: "/a", "/b", "/a/", "/"
ThreadDirs == << <<Slash, "a">>, <<Slash, "b">>, <<Slash, "a", Slash>>, <<Slash>> >>

\* each thread its own directory; threads are alike, so the one with the
\* lower number gets the directory that comes first in ThreadDirs
ThreadDirChoices ==
    { f \in [1..MaxThreads -> 1..Len(ThreadDirs)] :
        \A i, j \in 1..MaxThreads : i < j => f[i] < f[j] }

\* let current = { let guard = path_mutex.lock().unwrap(); guard.clone() };
LockAndClone(t) ==
    /\ thread[t].pc = "clone"
    /\ thread' = [thread EXCEPT ![t].current = path_mutex, ![t].pc = "set_var"]
    /\ UNCHANGED <<fs, PATH, call, path_mutex, writer>>

\* env::set_var("PATH", &current);
SetVarCurrent(t) ==
    /\ thread[t].pc = "set_var"
    /\ PATH' = thread[t].current
    /\ thread' = [thread EXCEPT ![t].pc = "add"]
    /\ UNCHANGED <<fs, call, path_mutex, writer>>

\* let enhanced = path_utils::add_to_path_if_missing(&new_dir);
ThreadAddToPath(t) ==
    /\ thread[t].pc = "add"
    /\ thread' = [thread EXCEPT
                    ![t].enhanced = add_to_path_if_missing(PATH, thread[t].new_dir),
                    ![t].pc = "store"]
    /\ UNCHANGED <<fs, PATH, call, path_mutex, writer>>

\* { let mut guard = path_mutex.lock().unwrap(); *guard = enhanced; }
LockAndStore(t) ==
    /\ thread[t].pc = "store"
    /\ path_mutex' = thread[t].enhanced
    /\ writer' = t
    /\ thread' = [thread EXCEPT ![t].pc = "done"]
    /\ UNCHANGED <<fs, PATH, call>>

\* every handle.join() has returned
AllJoined == thread # <<>> /\ \A t \in DOMAIN thread : thread[t].pc = "done"

----------------------------------------------------------------------------
(* Specifications. *)

Init ==
    /\ fs \in FileSystems
    /\ PATH \in Paths(MaxSegs)
    /\ call = NoCall
    /\ NoThreads

\* add_to_path_if_missing and a caller that stores its result
Next ==
    \/ \E dir \in Dirs : AddToPathIfMissing(dir)
    \/ SetVarPath

Spec == Init /\ [][Next]_vars

InitDedup ==
    /\ fs \in FileSystems
    /\ PATH \in Paths(MaxDedupSegs)
    /\ call = NoCall
    /\ NoThreads

\* the functions of a string: deduplicate_path and path_contains_dir
NextDedup ==
    \/ \E again \in BOOLEAN : DeduplicatePath(again)
    \/ \E dir \in Dirs : PathContainsDir(dir)

SpecDedup == InitDedup /\ [][NextDedup]_vars

\* one call in a behaviour: the call changes neither PATH nor the filesystem,
\* so a second call would start from the same PATH and filesystem as the first
NextEnhance ==
    /\ call.op = "none"
    /\ \E paths \in CandidateLists(MaxCands) : EnhancePathForCommonLocations(paths)

SpecEnhance == Init /\ [][NextEnhance]_vars

NextBuild ==
    \E exe \in Executables : CreateCommandWithEnv(exe)

SpecBuild == Init /\ [][NextBuild]_vars

\* the shared path starts free of duplicates; the threads are spawned
InitConcurrent ==
    /\ fs \in FileSystems
    /\ PATH \in Paths(1)
    /\ call = NoCall
    /\ path_mutex \in { p \in Paths(MaxSegs) : deduplicate_path(p) = p }
    /\ \E f \in ThreadDirChoices :
         thread = [t \in 1..MaxThreads |->
                     [pc |-> "clone", new_dir |-> ThreadDirs[f[t]],
                      current |-> <<>>, enhanced |-> <<>>]]
    /\ writer = 0

NextConcurrent ==
    \E t \in 1..MaxThreads :
        \/ LockAndClone(t)
        \/ SetVarCurrent(t)
        \/ ThreadAddToPath(t)
        \/ LockAndStore(t)

SpecConcurrent == InitConcurrent /\ [][NextConcurrent]_vars

----------------------------------------------------------------------------
(* Vocabulary of the properties. *)

HasSep(s) == \E i \in 1..Len(s) : s[i] = Sep

\* the identities of the segments of a PATH value
Identities(path) == [i \in 1..Len(Split(path)) |-> normalize_path(Split(path)[i])]

\* how many segments of path have the identity of dir
CountIdentity(path, dir) ==
    LET ids == Identities(path) IN
    Cardinality({ i \in 1..Len(ids) : ids[i] = normalize_path(dir) })

NumSegments(path) == Len(Split(path))

IsSuffix(t, s) == Len(t) <= Len(s) /\ SubSeq(s, Len(s) - Len(t) + 1, Len(s)) = t

NoEmptySegment(s) ==
    \/ s = <<>>
    \/ /\ s[1] # Sep
       /\ s[Len(s)] # Sep
       /\ \A i \in 1..(Len(s) - 1) : ~(s[i] = Sep /\ s[i + 1] = Sep)

\* parts[i] for the i of keep, in increasing order
Pick(parts, keep) ==
    LET idx == SelectSeq([i \in 1..Len(parts) |-> i], LAMBDA i : i \in keep)
    IN  [k \in 1..Len(idx) |-> parts[idx[k]]]

\* the positions whose identity no earlier position has
FirstOfIdentity(parts) ==
    { i \in 1..Len(parts) :
        \A j \in 1..(i - 1) : normalize_path(parts[j]) # normalize_path(parts[i]) }

----------------------------------------------------------------------------
(* C1 *)

\* C1 as stated: after add_to_path_if_missing(d) on any PATH and any d, the
\* result contains d.
C1_ResultContainsDir ==
    call.op = "add" => path_contains_dir(call.ret, call.dir)

\* C1 amended: for every d that has no ':' in it, the result of
\* add_to_path_if_missing(d) contains d.
C1_ResultContainsSepFreeDir ==
    (call.op = "add" /\ ~HasSep(call.dir)) => path_contains_dir(call.ret, call.dir)

\* a directory without ':' was missing from a non-empty PATH and has been added
C1_Witness ==
    /\ call.op = "add"
    /\ ~HasSep(call.dir)
    /\ call.path # <<>>
    /\ ~path_contains_dir(call.path, call.dir)
    /\ call.ret # call.path

(* C2 *)

\* C2 as stated: add_to_path_if_missing(d) called again on the PATH its own
\* result was stored into returns that PATH again, for any d.
C2_Idempotent ==
    (call.op = "add" /\ call.nth >= 2) => call.ret = call.path

\* C2 amended: for every d that has no ':' in it, add_to_path_if_missing(d)
\* called again on the PATH its own result was stored into returns that PATH.
C2_IdempotentSepFreeDir ==
    (call.op = "add" /\ call.nth >= 2 /\ ~HasSep(call.dir)) => call.ret = call.path

\* the first call added d, its result was stored, and the call was repeated
C2_Witness ==
    /\ call.op = "add"
    /\ call.nth >= 2
    /\ ~HasSep(call.dir)
    /\ call.first # call.path
    /\ call.first # <<>>

(* C3 *)

\* C3: deduplicate_path applied to its own result returns it unchanged.
C3_DedupIdempotent ==
    (call.op = "dedup" /\ call.nth >= 2) => call.ret = call.path

\* deduplicate_path removed something and was then applied to its result
C3_Witness ==
    /\ call.op = "dedup"
    /\ call.nth >= 2
    /\ call.first # call.path
    /\ call.path # <<>>

(* C4 *)

\* C4: after every create_command_with_env(exe) the PATH has at most one
\* segment with the identity of exe's directory, and from the second successive
\* call on the number of segments does not grow.
C4_NoGrowth ==
    call.op = "build" =>
        /\ CountIdentity(call.ret, dir_of_executable(call.dir)) <= 1
        /\ call.nth >= 2 => NumSegments(call.ret) <= NumSegments(call.path)

\* the directory was missing at first, was added, and the call was repeated
C4_Witness ==
    /\ call.op = "build"
    /\ call.nth = MaxCalls
    /\ CountIdentity(call.first, dir_of_executable(call.dir)) = 0
    /\ CountIdentity(call.ret, dir_of_executable(call.dir)) = 1
    /\ NumSegments(call.ret) >= 2

(* C5 *)

\* C5 as stated: deduplicate_path(p) is p's segments with the first segment of
\* each distinct identity kept, in order and as written, and the kept
\* identities are pairwise distinct.  Empty segments are left out of the
\* count: that they are dropped is C10.
C5_KeepsFirstOfEachIdentity ==
    call.op = "dedup" =>
        LET parts == Split(call.path)
            written == { i \in 1..Len(parts) : parts[i] # <<>> }
            kept == Pick(parts, FirstOfIdentity(parts) \cap written)
        IN  /\ call.ret = Join(kept)
            /\ \A i, j \in 1..Len(kept) :
                 i # j => normalize_path(kept[i]) # normalize_path(kept[j])

(* C6 *)

\* C6: add_to_path_if_missing(d) returns PATH as it is when PATH contains d,
\* d when PATH is empty, and d ":" PATH otherwise; PATH is a suffix of the result.
C6_AddResult ==
    call.op = "add" =>
        /\ path_contains_dir(call.path, call.dir) => call.ret = call.path
        /\ (~path_contains_dir(call.path, call.dir) /\ call.path = <<>>) =>
               call.ret = call.dir
        /\ (~path_contains_dir(call.path, call.dir) /\ call.path # <<>>) =>
               call.ret = call.dir \o <<Sep>> \o call.path
        /\ IsSuffix(call.path, call.ret)

\* d was prepended to a PATH that holds an empty segment
C6_Witness ==
    /\ call.op = "add"
    /\ call.path # <<>>
    /\ ~NoEmptySegment(call.path)
    /\ ~path_contains_dir(call.path, call.dir)
    /\ Len(call.ret) = Len(call.dir) + 1 + Len(call.path)

(* C7 *)

\* C7 as stated: path_contains_dir("", d) is false for every d.
C7_EmptyPathContainsNothing ==
    (call.op = "contains" /\ call.path = <<>>) => ~call.found

(* C8 *)

C9_EnhancedValue ==
    (call.op = "enhance" /\ call.found) =>
        LET qual == NewPaths(call.path, call.cands)
            out == Split(call.ret)
        IN  /\ call.ret = deduplicate_path(Join(Append(qual, call.path)))
            /\ \A i \in 1..Len(qual) : path_contains_dir(call.ret, qual[i])
            /\ \E k \in 0..Len(out) :
                 /\ \A i \in 1..k : \E j \in 1..Len(qual) : out[i] = qual[j]
                 /\ \A i \in (k + 1)..Len(out) :
                      \E j \in 1..Len(Split(call.path)) : out[i] = Split(call.path)[j]
            /\ \A i, j \in 1..Len(out) :
                 i # j => normalize_path(out[i]) # normalize_path(out[j])

(* C10 *)

\* C10: deduplicate_path(p) has no empty segment (no ':' first or last, no
\* "::"), and deduplicate_path("") is "".
C10_NoEmptySegments ==
    call.op = "dedup" =>
        /\ NoEmptySegment(call.ret)
        /\ call.path = <<>> => call.ret = <<>>

\* a string with an empty segment was deduplicated to something non-empty
C10_Witness ==
    /\ call.op = "dedup"
    /\ ~NoEmptySegment(call.path)
    /\ call.ret # <<>>

(* C12 *)

\* C12 as stated: deduplicate_path preserves membership: for every d,
\* path_contains_dir(deduplicate_path(p), d) = path_contains_dir(p, d).
C12_DedupPreservesMembership ==
    call.op = "dedup" =>
        \A dir \in Dirs :
            path_contains_dir(call.ret, dir) = path_contains_dir(call.path, dir)

(* C11 *)

\* C11 as stated: when all threads have finished, the shared path equals
\* deduplicate_path of itself.
C11_FinalPathDeduplicated ==
    AllJoined => path_mutex = deduplicate_path(path_mutex)

(* C13 *)

====
